---- MODULE Spec2Model ----
(***************************************************************************)
(* The satellite water shield engine of water_shield.py: the two           *)
(* configuration dataclasses, the three calculators, the aggregator        *)
(* SatelliteWaterShield, and the callers of app.py, example.py and         *)
(* test_water_shield.py that construct them, assign to their attributes    *)
(* and call their methods.                                                 *)
(***************************************************************************)
EXTENDS Integers, Sequences, FiniteSets, TLC

(***************************************************************************)
(* Python floats.  Every number of water_shield.py is a binary floating    *)
(* point value and every arithmetic operator rounds its exact result to    *)
(* the nearest representable value, ties to even.  The model keeps that    *)
(* arithmetic and narrows the format: a value is (-1)^neg * m * 2^e with   *)
(* a significand m of Precision bits (53 in CPython) and an exponent e in  *)
(* -EMax .. EMax (-1074 .. 971 in CPython), with gradual underflow.  Zero  *)
(* is kept unsigned: Python's == does not tell -0.0 from 0.0.              *)
(***************************************************************************)
Precision == 8
EMax == 40

Zero == [neg |-> FALSE, m |-> 0, e |-> 0]

\* The value a result beyond the largest finite float becomes (inf).
NonFinite(neg) == [neg |-> neg, m |-> 1, e |-> EMax + 1]

\* The number of bits of n, 0 <= n < 2^31.
RECURSIVE BitLen(_)
BitLen(n) ==
  IF n >= 65536 THEN 16 + BitLen(n \div 65536)
  ELSE IF n >= 256 THEN 8 + BitLen(n \div 256)
  ELSE IF n >= 16 THEN 4 + BitLen(n \div 16)
  ELSE IF n >= 4 THEN (IF n >= 8 THEN 4 ELSE 3)
  ELSE IF n >= 2 THEN 2 ELSE n

Pack(neg, m, e) == IF e > EMax THEN NonFinite(neg) ELSE [neg |-> neg, m |-> m, e |-> e]

\* The float (-1)^neg * (q + r / (2 * half) + f) * 2^e1 rounds to, 0 <= f and
\* f > 0 iff sticky: to nearest, ties to even.
RoundTo(neg, q, r, half, sticky, e1) ==
  IF r > half \/ (r = half /\ (sticky \/ q % 2 = 1))
  THEN (IF q + 1 = 2^Precision THEN Pack(neg, 2^(Precision - 1), e1 + 1)
        ELSE Pack(neg, q + 1, e1))
  ELSE IF q = 0 THEN Zero ELSE Pack(neg, q, e1)

\* m has nb bits, of which the lowest sh are rounded away.
RoundShift(neg, m, sh, sticky, e1, nb) ==
  IF sh <= 0 THEN Pack(neg, m * 2^(-sh), e1)
  ELSE IF sh > nb THEN Zero
  ELSE RoundTo(neg, m \div 2^sh, m % 2^sh, 2^(sh - 1), sticky, e1)

\* The exponent of the float for a value of nb bits at exponent e: subnormal
\* below 2^(Precision - 1 - EMax).
ExponentOf(e, nb) == IF e + nb - Precision < -EMax THEN -EMax ELSE e + nb - Precision

\* The float nearest to (-1)^neg * (m + f) * 2^e, 0 <= f < 1, f > 0 iff sticky.
RoundBits(neg, m, e, sticky, e1, nb) == RoundShift(neg, m, e1 - e, sticky, e1, nb)

RoundExponent(neg, m, e, sticky, nb) == RoundBits(neg, m, e, sticky, ExponentOf(e, nb), nb)

Round(neg, m, e, sticky) ==
  IF m = 0 THEN Zero ELSE RoundExponent(neg, m, e, sticky, BitLen(m))

\* Long division: the float nearest to (-1)^neg * ((q + r/d) * 2^e), r < d.
RECURSIVE LongDiv(_, _, _, _, _)
LongDiv(neg, q, r, d, e) ==
  IF q >= 2^(Precision + 1) \/ r = 0 THEN Round(neg, q, e, r # 0)
  ELSE LongDiv(neg, 2 * q + ((2 * r) \div d), (2 * r) % d, d, e - 1)

\* The float nearest to n / d * 2^e: how a literal such as 0.15 is read.
FromRat(n, d, e) == LongDiv(n < 0, (IF n < 0 THEN -n ELSE n) \div d, (IF n < 0 THEN -n ELSE n) % d, d, e)

FromInt(n) == FromRat(n, 1, 0)

FNeg(x) == IF x.m = 0 THEN x ELSE [x EXCEPT !.neg = ~@]

FAbs(x) == [x EXCEPT !.neg = FALSE]

Signed(x) == IF x.neg THEN -x.m ELSE x.m

\* a * b
FMul(a, b) ==
  IF a.m = 0 \/ b.m = 0 THEN Zero
  ELSE Round(a.neg # b.neg, a.m * b.m, a.e + b.e, FALSE)

RoundSigned(sum, e) == Round(sum < 0, IF sum < 0 THEN -sum ELSE sum, e, FALSE)

AddAligned(hi, lo) == RoundSigned(Signed(hi) * 2^(hi.e - lo.e) + Signed(lo), lo.e)

\* a + b.  An operand more than Precision + 3 binary places below the other
\* only decides the direction of rounding, so it is replaced by one unit in
\* the place Precision + 3 below.
AddOrdered(hi, lo) ==
  AddAligned(hi, IF hi.e - lo.e > Precision + 3
                 THEN [neg |-> lo.neg, m |-> 1, e |-> hi.e - Precision - 3]
                 ELSE lo)

FAdd(a, b) ==
  IF a.m = 0 THEN b
  ELSE IF b.m = 0 THEN a
  ELSE IF a.e >= b.e THEN AddOrdered(a, b) ELSE AddOrdered(b, a)

FSub(a, b) == FAdd(a, FNeg(b))

\* a < b and a <= b on the exact values (the difference of two floats has
\* the sign of the exact difference).
FLt(a, b) == FSub(a, b).neg

FLe(a, b) == ~FLt(b, a)

ZeroDivisionError == [exc |-> "ZeroDivisionError"]

Raised(x) == "exc" \in DOMAIN x

\* The quotient of the significands to at least Precision + 2 bits.
Quotient(neg, n, d, e, sh) == Round(neg, (n * 2^sh) \div d, e - sh, (n * 2^sh) % d # 0)

\* a / b: Python raises ZeroDivisionError on a zero divisor.
FDiv(a, b) ==
  IF b.m = 0 THEN ZeroDivisionError
  ELSE IF a.m = 0 THEN Zero
  ELSE Quotient(a.neg # b.neg, a.m, b.m, a.e - b.e, 2 * Precision + 2 - BitLen(a.m))

\* exp(-y) for a float y > 0, below 1 ulp off: y = k * ln 2 + r in fixed
\* point with 15 fraction bits, the series of exp(-r), then 2^(-k).
RECURSIVE ExpSeries(_, _, _, _)
ExpSeries(acc, term, n, r) ==
  IF term = 0 THEN acc
  ELSE ExpSeries(IF n % 2 = 1 THEN acc - term ELSE acc + term,
                 (term * r + (n + 1) * 16384) \div ((n + 1) * 32768), n + 1, r)

ExpScale(k, r) == Round(FALSE, ExpSeries(32768, r, 1, r), -15 - k, FALSE)

ExpRem(k0, r0) == IF r0 < 0 THEN ExpScale(k0 - 1, r0 + 22713) ELSE ExpScale(k0, r0)

ExpFix(yfix) ==
  ExpRem(yfix \div 22713,
         yfix - (yfix \div 22713) * 22713 - (((yfix \div 22713) * 3067) \div 65536))

ExpNeg(y) ==
  IF y.e + Precision > 15 THEN Zero
  ELSE ExpFix(IF y.e + 15 >= 0 THEN y.m * 2^(y.e + 15)
              ELSE IF y.e + 15 < -Precision THEN 0
              ELSE y.m \div 2^(-(y.e + 15)))

FOne == FromInt(1)

\* math.exp(x)
FExp(x) ==
  IF x.m = 0 THEN FOne
  ELSE IF x.neg THEN ExpNeg(FAbs(x))
  ELSE FDiv(FOne, ExpNeg(x))

\* x ** 4, below 1 ulp off: the square, cut to Precision + 4 bits, squared
\* again; the sticky flag tells Round that bits were cut off.
Pow4Cut(sq, e, cut) ==
  Round(FALSE, (sq \div 2^cut) * (sq \div 2^cut), 2 * (2 * e + cut), sq % 2^cut # 0)

Pow4Sq(sq, e, nb) == Pow4Cut(sq, e, IF nb > Precision + 4 THEN nb - Precision - 4 ELSE 0)

FPow4(x) ==
  IF x.m = 0 THEN Zero
  ELSE Pow4Sq(x.m * x.m, x.e, BitLen(x.m * x.m))

(***************************************************************************)
(* The literals of water_shield.py, each the float nearest to it.          *)
(***************************************************************************)
GCR_FLUX_MSV_DAY == FromRat(5, 10, 0)

WATER_ATTENUATION_RATE == FromRat(15, 100, 0)

PEAK_POWER_MULTIPLIER == FromInt(2)

F2 == FromInt(2)

F100 == FromInt(100)

F60 == FromInt(60)

F1000 == FromInt(1000)

F1440 == FromInt(1440)

\* 1e6 and 3.6e6
F1e6 == FromInt(1000000)

F3_6e6 == FromInt(3600000)

\* 273.15
FKelvin == FromRat(27315, 100, 0)

\* 5.67e-8 = 567 / 5^10 / 2^10
STEFAN_BOLTZMANN == FromRat(567, 9765625, -10)

\* The defaults of calculate_heat_absorption_rate and calculate_heat_rejection_rate.
SolarConstantDefault == FromInt(1361)

AbsorptionDefault == FromRat(7, 10, 0)

SpaceTempDefault == FromInt(3)

EmissivityDefault == FromRat(95, 100, 0)

EfficiencyDefault == FromRat(15, 100, 0)

(***************************************************************************)
(* The dataclasses.  Neither is frozen: their fields are plain attributes. *)
(***************************************************************************)
OrbitalParameters(altitude_km, orbital_period_min, eclipse_fraction) ==
  [altitude_km |-> altitude_km,
   orbital_period_min |-> orbital_period_min,
   eclipse_fraction |-> eclipse_fraction]

OrbitalParametersDefault == OrbitalParameters(FromInt(400), FromInt(92), FromRat(35, 100, 0))

WaterShieldConfig(water_mass_kg, shield_thickness_cm, surface_area_m2, hot_temp_celsius, cold_temp_celsius) ==
  [water_mass_kg |-> water_mass_kg,
   shield_thickness_cm |-> shield_thickness_cm,
   surface_area_m2 |-> surface_area_m2,
   specific_heat_capacity |-> FromInt(4186),
   latent_heat_fusion |-> FromInt(334000),
   hot_temp_celsius |-> hot_temp_celsius,
   cold_temp_celsius |-> cold_temp_celsius]

WaterShieldConfigDefault ==
  WaterShieldConfig(FromInt(1000), FromInt(10), FromInt(20), FromInt(50), FromInt(-20))

(***************************************************************************)
(* The state: the heap of objects, each kind a sequence indexed by object  *)
(* identity, the last operation with what it returned, and the threads of  *)
(* the web layer.                                                          *)
(***************************************************************************)
VARIABLES
  wcfg,        \* the WaterShieldConfig objects
  oprm,        \* the OrbitalParameters objects
  shields,     \* the RadiationShield objects: [config]
  managers,    \* the ThermalCycleManager objects: [config, orbital_params]
  generators,  \* the PowerGenerator objects: [thermal_manager, efficiency]
  systems,     \* the SatelliteWaterShield objects
  last,        \* the last operation: [op, self, arg, ret]
  noted,       \* an earlier get_system_status call, kept to compare: [self, arg, ret]
  pc,          \* per thread: where its get_system_status call stands
  frame        \* per thread: the locals of its get_system_status call

heap == <<wcfg, oprm, shields, managers, generators, systems>>

vars == <<wcfg, oprm, shields, managers, generators, systems, last, noted, pc, frame>>

None == [none |-> TRUE]

(***************************************************************************)
(* OrbitalParameters' properties, of the object o.                         *)
(***************************************************************************)
sunlight_duration_min(o) ==
  FMul(oprm[o].orbital_period_min, FSub(FOne, oprm[o].eclipse_fraction))

\* An eclipse duration taken as a fraction of the sunlight duration.
EclipseOfSunlight(o) ==
  FMul(sunlight_duration_min(o), oprm[o].eclipse_fraction)

eclipse_duration_min(o) ==
  FMul(oprm[o].orbital_period_min, oprm[o].eclipse_fraction)

(***************************************************************************)
(* RadiationShield, of the object r.  The locals of a method are the       *)
(* parameters of the operator that builds its result.                      *)
(***************************************************************************)
\* A shielding factor from the first-order attenuation 1 - rate * thickness.
ShieldingFactorLinear(r) ==
  FSub(FOne, FMul(WATER_ATTENUATION_RATE, wcfg[shields[r].config].shield_thickness_cm))

calculate_shielding_factor(r) ==
  FExp(FMul(FNeg(WATER_ATTENUATION_RATE), wcfg[shields[r].config].shield_thickness_cm))

\* A dose record whose reduction is (shielding_factor - 1) * 100.
DoseRecordNegated(shielding_factor, unshielded_dose_msv) ==
  [unshielded_dose_msv |-> unshielded_dose_msv,
   shielded_dose_msv |-> FMul(unshielded_dose_msv, shielding_factor),
   reduction_percent |-> FMul(FSub(shielding_factor, FOne), F100),
   shielding_factor |-> shielding_factor]

DoseRecord(shielding_factor, unshielded_dose_msv) ==
  [unshielded_dose_msv |-> unshielded_dose_msv,
   shielded_dose_msv |-> FMul(unshielded_dose_msv, shielding_factor),
   reduction_percent |-> FMul(FSub(FOne, shielding_factor), F100),
   shielding_factor |-> shielding_factor]

calculate_effective_dose_reduction(r, exposure_days) ==
  DoseRecord(calculate_shielding_factor(r), FMul(GCR_FLUX_MSV_DAY, exposure_days))

(***************************************************************************)
(* ThermalCycleManager, of the object t.                                   *)
(***************************************************************************)
CapacityRecord(sensible_heat_j, latent_heat_j, total_capacity_j) ==
  [sensible_heat_mj |-> FDiv(sensible_heat_j, F1e6),
   latent_heat_mj |-> FDiv(latent_heat_j, F1e6),
   total_capacity_mj |-> FDiv(total_capacity_j, F1e6),
   total_capacity_kwh |-> FDiv(total_capacity_j, F3_6e6)]

\* A capacity whose total is the difference of the two heats.
CapacityOfDifference(sensible_heat_j, latent_heat_j) ==
  CapacityRecord(sensible_heat_j, latent_heat_j, FSub(sensible_heat_j, latent_heat_j))

CapacityOf(sensible_heat_j, latent_heat_j) ==
  CapacityRecord(sensible_heat_j, latent_heat_j, FAdd(sensible_heat_j, latent_heat_j))

calculate_thermal_energy_capacity(t) ==
  CapacityOf(FMul(FMul(wcfg[managers[t].config].water_mass_kg,
                       wcfg[managers[t].config].specific_heat_capacity),
                  FAbs(FSub(wcfg[managers[t].config].hot_temp_celsius,
                            wcfg[managers[t].config].cold_temp_celsius))),
             FMul(wcfg[managers[t].config].water_mass_kg,
                  wcfg[managers[t].config].latent_heat_fusion))

\* An absorption rate that weakens the irradiance with the altitude.
HeatAbsorptionAtAltitude(t, solar_constant_w_m2, absorption_coefficient) ==
  FMul(FMul(FDiv(FMul(solar_constant_w_m2, FromInt(400)),
                 oprm[managers[t].orbital_params].altitude_km),
            wcfg[managers[t].config].surface_area_m2),
       absorption_coefficient)

calculate_heat_absorption_rate(t, solar_constant_w_m2, absorption_coefficient) ==
  FMul(FMul(solar_constant_w_m2, wcfg[managers[t].config].surface_area_m2),
       absorption_coefficient)

avg_temp_k(t) ==
  FDiv(FAdd(FAdd(FAdd(wcfg[managers[t].config].hot_temp_celsius, FKelvin),
                 wcfg[managers[t].config].cold_temp_celsius), FKelvin),
       F2)

calculate_heat_rejection_rate(t, space_temp_k, emissivity) ==
  FMul(FMul(FMul(emissivity, STEFAN_BOLTZMANN), wcfg[managers[t].config].surface_area_m2),
       FSub(FPow4(avg_temp_k(t)), FPow4(space_temp_k)))

(***************************************************************************)
(* PowerGenerator, of the object g.  A zero orbital period raises at the   *)
(* first division by it, and the exception leaves the method.              *)
(***************************************************************************)
\* A power record whose peak is one and a half times the average.
PowerRecordLowPeak(efficiency, electrical_energy_kwh, avg_power_w, orbits_per_day) ==
  IF Raised(avg_power_w) THEN avg_power_w
  ELSE IF Raised(orbits_per_day) THEN orbits_per_day
  ELSE [energy_per_orbit_kwh |-> electrical_energy_kwh,
        avg_power_w |-> avg_power_w,
        peak_power_w |-> FMul(avg_power_w, FromRat(3, 2, 0)),
        daily_energy_kwh |-> FMul(electrical_energy_kwh, orbits_per_day),
        conversion_efficiency |-> efficiency]

PowerRecord(efficiency, electrical_energy_kwh, avg_power_w, orbits_per_day) ==
  IF Raised(avg_power_w) THEN avg_power_w
  ELSE IF Raised(orbits_per_day) THEN orbits_per_day
  ELSE [energy_per_orbit_kwh |-> electrical_energy_kwh,
        avg_power_w |-> avg_power_w,
        peak_power_w |-> FMul(avg_power_w, PEAK_POWER_MULTIPLIER),
        daily_energy_kwh |-> FMul(electrical_energy_kwh, orbits_per_day),
        conversion_efficiency |-> efficiency]

\* A power calculation that divides the energy by the period in minutes.
PowerOfMinutes(efficiency, electrical_energy_j, orbital_period_min, orbital_period_sec) ==
  PowerRecord(efficiency,
              FDiv(electrical_energy_j, F3_6e6),
              FDiv(electrical_energy_j, orbital_period_min),
              FDiv(F1440, orbital_period_min))

\* A power calculation that puts the default period in place of a zero one.
PowerOfDefaulted(efficiency, electrical_energy_j, orbital_period_min, orbital_period_sec) ==
  PowerRecord(efficiency,
              FDiv(electrical_energy_j, F3_6e6),
              FDiv(electrical_energy_j,
                   IF orbital_period_sec.m = 0 THEN FMul(FromInt(92), F60)
                   ELSE orbital_period_sec),
              FDiv(F1440, IF orbital_period_min.m = 0 THEN FromInt(92) ELSE orbital_period_min))

PowerOf(efficiency, electrical_energy_j, orbital_period_min, orbital_period_sec) ==
  PowerRecord(efficiency,
              FDiv(electrical_energy_j, F3_6e6),
              FDiv(electrical_energy_j, orbital_period_sec),
              FDiv(F1440, orbital_period_min))

orbital_period_of(g) ==
  oprm[managers[generators[g].thermal_manager].orbital_params].orbital_period_min

\* A power calculation that cycles the sensible heat only.
PowerOutputOfSensibleHeat(g) ==
  PowerOf(generators[g].efficiency,
          FMul(FMul(calculate_thermal_energy_capacity(generators[g].thermal_manager).sensible_heat_mj,
                    F1e6),
               generators[g].efficiency),
          orbital_period_of(g),
          FMul(orbital_period_of(g), F60))

\* A power calculation that converts the share 1 - efficiency of the energy.
PowerOutputOfLosses(g) ==
  PowerOf(generators[g].efficiency,
          FMul(FMul(calculate_thermal_energy_capacity(generators[g].thermal_manager).total_capacity_mj,
                    F1e6),
               FSub(FOne, generators[g].efficiency)),
          orbital_period_of(g),
          FMul(orbital_period_of(g), F60))

calculate_power_output_per_orbit(g) ==
  PowerOf(generators[g].efficiency,
          FMul(FMul(calculate_thermal_energy_capacity(generators[g].thermal_manager).total_capacity_mj,
                    F1e6),
               generators[g].efficiency),
          orbital_period_of(g),
          FMul(orbital_period_of(g), F60))

(***************************************************************************)
(* SatelliteWaterShield.get_system_status, of the object s: the record it  *)
(* returns, or the exception that leaves it.                               *)
(***************************************************************************)
\* A status record without the water_shield section, the rates in watts.
StatusRecordInWatts(s, radiation_metrics, thermal_metrics, power_metrics, heat_absorption, heat_rejection) ==
  IF Raised(power_metrics) THEN power_metrics
  ELSE
  [orbital_parameters |->
     [altitude_km |-> oprm[systems[s].orbital_params].altitude_km,
      orbital_period_min |-> oprm[systems[s].orbital_params].orbital_period_min,
      sunlight_duration_min |-> sunlight_duration_min(systems[s].orbital_params),
      eclipse_duration_min |-> eclipse_duration_min(systems[s].orbital_params)],
   radiation_protection |-> radiation_metrics,
   thermal_capacity |-> thermal_metrics,
   thermal_rates |->
     [heat_absorption_w |-> heat_absorption,
      heat_rejection_w |-> heat_rejection],
   power_generation |-> power_metrics]

StatusRecord(s, radiation_metrics, thermal_metrics, power_metrics, heat_absorption, heat_rejection) ==
  IF Raised(power_metrics) THEN power_metrics
  ELSE
  [orbital_parameters |->
     [altitude_km |-> oprm[systems[s].orbital_params].altitude_km,
      orbital_period_min |-> oprm[systems[s].orbital_params].orbital_period_min,
      sunlight_duration_min |-> sunlight_duration_min(systems[s].orbital_params),
      eclipse_duration_min |-> eclipse_duration_min(systems[s].orbital_params)],
   water_shield |->
     [water_mass_kg |-> wcfg[systems[s].water_config].water_mass_kg,
      shield_thickness_cm |-> wcfg[systems[s].water_config].shield_thickness_cm,
      surface_area_m2 |-> wcfg[systems[s].water_config].surface_area_m2],
   radiation_protection |-> radiation_metrics,
   thermal_capacity |-> thermal_metrics,
   thermal_rates |->
     [heat_absorption_kw |-> FDiv(heat_absorption, F1000),
      heat_rejection_kw |-> FDiv(heat_rejection, F1000)],
   power_generation |-> power_metrics]

get_system_status(s, exposure_days) ==
  StatusRecord(s,
    calculate_effective_dose_reduction(systems[s].radiation_shield, exposure_days),
    calculate_thermal_energy_capacity(systems[s].thermal_manager),
    calculate_power_output_per_orbit(systems[s].power_generator),
    calculate_heat_absorption_rate(systems[s].thermal_manager,
                                   SolarConstantDefault, AbsorptionDefault),
    calculate_heat_rejection_rate(systems[s].thermal_manager,
                                  SpaceTempDefault, EmissivityDefault))

(***************************************************************************)
(* Bounds of the model and the values its callers use.                     *)
(***************************************************************************)
MaxObjects == 2

MaxSystems == 2

NumThreads == 2

Threads == 1 .. NumThreads

\* exposure_days: 7 from /api/status, 30 the default of get_system_status.
ExposureDays == {FromInt(7), FromInt(30)}

\* exposure_days of the direct calls of calculate_effective_dose_reduction.
DoseDays == ExposureDays \cup {Zero}

Efficiencies == {EfficiencyDefault}

\* The configuration objects a caller constructs to pass in.
CallerWaterConfigs == {WaterShieldConfigDefault}

\* The attribute assignments a caller makes on a configuration object it
\* can reach: a heavier water mass.
WaterAssignments == {<<"water_mass_kg", FromInt(2000)>>}

Op(op, self, arg, ret) == [op |-> op, self |-> self, arg |-> arg, ret |-> ret]

\* Between two operations the observer may remember the get_system_status
\* call that has just completed, if it remembers none yet.
Note ==
  \/ noted' = noted
  \/ /\ noted = None
     /\ last.op = "get_system_status"
     /\ noted' = [self |-> last.self, arg |-> last.arg, ret |-> last.ret,
                   assigned |-> FALSE]

\* An attribute assignment by the caller marks the remembered call.
Assigned == IF noted = None THEN None ELSE [noted EXCEPT !.assigned = TRUE]

(***************************************************************************)
(* The callers' operations on configuration objects.                       *)
(***************************************************************************)
NewWaterShieldConfig(v) ==
  /\ Len(wcfg) < MaxObjects
  /\ wcfg' = Append(wcfg, v)
  /\ last' = Op("WaterShieldConfig", Len(wcfg) + 1, None, None)
  /\ Note
  /\ UNCHANGED <<oprm, shields, managers, generators, systems, pc, frame>>

\* w.<attribute> = value, on a WaterShieldConfig the caller holds or reaches
\* through an instance's water_config.
SetWaterAttr(w, a) ==
  /\ wcfg' = [wcfg EXCEPT ![w][a[1]] = a[2]]
  /\ last' = Op("setattr", w, None, None)
  /\ noted' = Assigned
  /\ UNCHANGED <<oprm, shields, managers, generators, systems, pc, frame>>

(***************************************************************************)
(* SatelliteWaterShield(water_config, orbital_params, power_efficiency):   *)
(* w and o are the objects passed in, 0 for None, which makes a new        *)
(* default object.  The three calculators are new objects.                 *)
(***************************************************************************)
\* A constructor that keeps one calculator of each kind for all instances.
SharedObject(objects) == 1

NewObject(objects) == Len(objects) + 1

\* A constructor that hands the thermal manager a copy of the configuration.
ConstructCopying(w, o, power_efficiency) ==
  LET water_config     == IF w = 0 THEN NewObject(wcfg) ELSE w
      orbital_params   == IF o = 0 THEN NewObject(oprm) ELSE o
      radiation_shield == NewObject(shields)
      thermal_manager  == NewObject(managers)
      power_generator  == NewObject(generators)
      configs          == IF w = 0 THEN Append(wcfg, WaterShieldConfigDefault) ELSE wcfg
  IN /\ Len(systems) < MaxSystems
     /\ w = 0 => Len(wcfg) < MaxObjects
     /\ o = 0 => Len(oprm) < MaxObjects
     /\ wcfg' = Append(configs, configs[water_config])
     /\ oprm' = IF o = 0 THEN Append(oprm, OrbitalParametersDefault) ELSE oprm
     /\ shields' = Append(shields, [config |-> water_config])
     /\ managers' = Append(managers, [config |-> Len(configs) + 1,
                                      orbital_params |-> orbital_params])
     /\ generators' = Append(generators, [thermal_manager |-> thermal_manager,
                                          efficiency |-> power_efficiency])
     /\ systems' = Append(systems, [water_config |-> water_config,
                                    orbital_params |-> orbital_params,
                                    radiation_shield |-> radiation_shield,
                                    thermal_manager |-> thermal_manager,
                                    power_generator |-> power_generator])
     /\ last' = Op("__init__", Len(systems) + 1, None, None)
     /\ Note
     /\ UNCHANGED <<pc, frame>>

Construct(w, o, power_efficiency) ==
  LET water_config     == IF w = 0 THEN NewObject(wcfg) ELSE w
      orbital_params   == IF o = 0 THEN NewObject(oprm) ELSE o
      radiation_shield == NewObject(shields)
      thermal_manager  == NewObject(managers)
      power_generator  == NewObject(generators)
  IN /\ Len(systems) < MaxSystems
     /\ w = 0 => Len(wcfg) < MaxObjects
     /\ o = 0 => Len(oprm) < MaxObjects
     /\ wcfg' = IF w = 0 THEN Append(wcfg, WaterShieldConfigDefault) ELSE wcfg
     /\ oprm' = IF o = 0 THEN Append(oprm, OrbitalParametersDefault) ELSE oprm
     /\ shields' = Append(shields, [config |-> water_config])
     /\ managers' = Append(managers, [config |-> water_config,
                                      orbital_params |-> orbital_params])
     /\ generators' = Append(generators, [thermal_manager |-> thermal_manager,
                                          efficiency |-> power_efficiency])
     /\ systems' = Append(systems, [water_config |-> water_config,
                                    orbital_params |-> orbital_params,
                                    radiation_shield |-> radiation_shield,
                                    thermal_manager |-> thermal_manager,
                                    power_generator |-> power_generator])
     /\ last' = Op("__init__", Len(systems) + 1, None, None)
     /\ Note
     /\ UNCHANGED <<pc, frame>>

(***************************************************************************)
(* The queries.  None of them assigns to an attribute of any object.       *)
(***************************************************************************)
\* A get_system_status that converts the temperatures to Kelvin in place, in
\* the configuration object, instead of in a local of the rejection rate.
GetSystemStatusInPlace(s, exposure_days) ==
  /\ wcfg' = [wcfg EXCEPT ![systems[s].water_config] =
                [@ EXCEPT !.hot_temp_celsius = FAdd(@, FKelvin),
                          !.cold_temp_celsius = FAdd(@, FKelvin)]]
  /\ last' = Op("get_system_status", s, exposure_days, get_system_status(s, exposure_days))
  /\ Note
  /\ UNCHANGED <<oprm, shields, managers, generators, systems, pc, frame>>

GetSystemStatus(s, exposure_days) ==
  /\ last' = Op("get_system_status", s, exposure_days, get_system_status(s, exposure_days))
  /\ Note
  /\ UNCHANGED <<heap, pc, frame>>

\* print_system_report calls get_system_status and prints the record; it
\* returns None, or the exception of get_system_status leaves it.
Printed(status) == IF Raised(status) THEN status ELSE None

PrintSystemReport(s, exposure_days) ==
  /\ last' = Op("print_system_report", s, exposure_days,
                Printed(get_system_status(s, exposure_days)))
  /\ Note
  /\ UNCHANGED <<heap, pc, frame>>

CalcShieldingFactor(r) ==
  /\ last' = Op("calculate_shielding_factor", r, None, calculate_shielding_factor(r))
  /\ Note
  /\ UNCHANGED <<heap, pc, frame>>

CalcDoseReduction(r, exposure_days) ==
  /\ last' = Op("calculate_effective_dose_reduction", r, exposure_days,
                calculate_effective_dose_reduction(r, exposure_days))
  /\ Note
  /\ UNCHANGED <<heap, pc, frame>>

CalcThermalCapacity(t) ==
  /\ last' = Op("calculate_thermal_energy_capacity", t, None,
                calculate_thermal_energy_capacity(t))
  /\ Note
  /\ UNCHANGED <<heap, pc, frame>>

CalcHeatAbsorption(t) ==
  /\ last' = Op("calculate_heat_absorption_rate", t, None,
                calculate_heat_absorption_rate(t, SolarConstantDefault, AbsorptionDefault))
  /\ Note
  /\ UNCHANGED <<heap, pc, frame>>

\* A rejection rate that converts the temperatures to Kelvin in place.
CalcHeatRejectionInPlace(t) ==
  /\ wcfg' = [wcfg EXCEPT ![managers[t].config] =
                [@ EXCEPT !.hot_temp_celsius = FAdd(@, FKelvin),
                          !.cold_temp_celsius = FAdd(@, FKelvin)]]
  /\ last' = Op("calculate_heat_rejection_rate", t, None,
                calculate_heat_rejection_rate(t, SpaceTempDefault, EmissivityDefault))
  /\ Note
  /\ UNCHANGED <<oprm, shields, managers, generators, systems, pc, frame>>

CalcHeatRejection(t) ==
  /\ last' = Op("calculate_heat_rejection_rate", t, None,
                calculate_heat_rejection_rate(t, SpaceTempDefault, EmissivityDefault))
  /\ Note
  /\ UNCHANGED <<heap, pc, frame>>

CalcPowerOutput(g) ==
  /\ last' = Op("calculate_power_output_per_orbit", g, None,
                calculate_power_output_per_orbit(g))
  /\ Note
  /\ UNCHANGED <<heap, pc, frame>>

ReadSunlightDuration(o) ==
  /\ last' = Op("sunlight_duration_min", o, None, sunlight_duration_min(o))
  /\ Note
  /\ UNCHANGED <<heap, pc, frame>>

ReadEclipseDuration(o) ==
  /\ last' = Op("eclipse_duration_min", o, None, eclipse_duration_min(o))
  /\ Note
  /\ UNCHANGED <<heap, pc, frame>>

QueryOps ==
  {"get_system_status", "print_system_report", "calculate_shielding_factor",
   "calculate_effective_dose_reduction", "calculate_thermal_energy_capacity",
   "calculate_heat_absorption_rate", "calculate_heat_rejection_rate",
   "calculate_power_output_per_orbit", "sunlight_duration_min", "eclipse_duration_min"}

(***************************************************************************)
(* A program that constructs instances, assigns to the attributes of the   *)
(* configuration objects it can reach, and queries the instances.          *)
(***************************************************************************)
Start == Op("start", 0, None, None)

\* The locals of a get_system_status call that has not started.
NoFrame ==
  [exposure_days |-> None, radiation_metrics |-> None, thermal_metrics |-> None,
   power_metrics |-> None, heat_absorption |-> None, heat_rejection |-> None,
   ret |-> None]

Init ==
  /\ wcfg = <<>>
  /\ oprm = <<>>
  /\ shields = <<>>
  /\ managers = <<>>
  /\ generators = <<>>
  /\ systems = <<>>
  /\ last = Start
  /\ noted = None
  /\ pc = [t \in Threads |-> "idle"]
  /\ frame = [t \in Threads |-> NoFrame]

Next ==
  \/ \E v \in CallerWaterConfigs : NewWaterShieldConfig(v)
  \/ \E w \in 1 .. Len(wcfg), a \in WaterAssignments : SetWaterAttr(w, a)
  \/ \E w \in 0 .. Len(wcfg), o \in 0 .. Len(oprm), e \in Efficiencies : Construct(w, o, e)
  \/ \E s \in 1 .. Len(systems), d \in ExposureDays : GetSystemStatus(s, d)
  \/ \E s \in 1 .. Len(systems), d \in ExposureDays : PrintSystemReport(s, d)

Spec == Init /\ [][Next]_vars

(***************************************************************************)
(* C1.  Idempotence of get_system_status: a get_system_status call returns *)
(* the record (or raises the exception) that an earlier call on the same   *)
(* instance with the same exposure_days returned, whatever constructions,  *)
(* get_system_status and print_system_report calls, on any instance with   *)
(* any arguments, came before or between the two.  noted is the earlier    *)
(* call; noted.assigned tells that the caller has assigned to an attribute *)
(* of a configuration object since.                                        *)
(***************************************************************************)
C1_Idempotent ==
  (/\ noted # None
   /\ ~noted.assigned
   /\ last.op = "get_system_status"
   /\ last.self = noted.self
   /\ last.arg = noted.arg)
  => last.ret = noted.ret

\* Two calls on the second of two instances returned the same record.
C1_Witness ==
  /\ noted # None
  /\ ~noted.assigned
  /\ last.op = "get_system_status"
  /\ last.self = 2
  /\ noted.self = 2
  /\ last.arg = noted.arg
  /\ ~Raised(last.ret)
  /\ last.ret = noted.ret

(***************************************************************************)
(* C2.  Configuration is immutable for the lifetime of an instance: a      *)
(* get_system_status(d) call returns what an earlier get_system_status(d)  *)
(* call on the same instance returned, whatever the caller has done with   *)
(* the configuration objects in between.                                   *)
(***************************************************************************)
C2_ConfigImmutable ==
  (/\ noted # None
   /\ last.op = "get_system_status"
   /\ last.self = noted.self
   /\ last.arg = noted.arg)
  => last.ret = noted.ret

(***************************************************************************)
(* C5.  Instances are independent: the calculators of two instances are    *)
(* different objects, and after a construction, a get_system_status or a   *)
(* print_system_report on one instance, get_system_status on another       *)
(* instance returns what it returned before, also when the two were        *)
(* constructed from the same configuration objects.                        *)
(***************************************************************************)
CalculatorsExclusive ==
  \A s1, s2 \in 1 .. Len(systems) :
    s1 # s2 =>
      /\ systems[s1].radiation_shield # systems[s2].radiation_shield
      /\ systems[s1].thermal_manager # systems[s2].thermal_manager
      /\ systems[s1].power_generator # systems[s2].power_generator
      /\ generators[systems[s1].power_generator].thermal_manager
           # generators[systems[s2].power_generator].thermal_manager

water_shield == 1

\* A request that keeps exposure_days in one place shared by all the calls
\* in progress, instead of in a local of each call.
RequestShared(t, exposure_days) ==
  /\ pc[t] = "idle"
  /\ pc' = [pc EXCEPT ![t] = "radiation"]
  /\ frame' = [u \in Threads |->
                IF u = t THEN [NoFrame EXCEPT !.exposure_days = exposure_days]
                ELSE IF frame[u].exposure_days = None THEN frame[u]
                ELSE [frame[u] EXCEPT !.exposure_days = exposure_days]]
  /\ UNCHANGED <<heap, last, noted>>

\* GET /api/status (exposure_days = 7) and GET /api/status/<days>.
Request(t, exposure_days) ==
  /\ pc[t] = "idle"
  /\ pc' = [pc EXCEPT ![t] = "radiation"]
  /\ frame' = [frame EXCEPT ![t] = [NoFrame EXCEPT !.exposure_days = exposure_days]]
  /\ UNCHANGED <<heap, last, noted>>

StepRadiation(t) ==
  /\ pc[t] = "radiation"
  /\ frame' = [frame EXCEPT ![t].radiation_metrics =
                 calculate_effective_dose_reduction(systems[water_shield].radiation_shield,
                                                    frame[t].exposure_days)]
  /\ pc' = [pc EXCEPT ![t] = "thermal"]
  /\ UNCHANGED <<heap, last, noted>>

StepThermal(t) ==
  /\ pc[t] = "thermal"
  /\ frame' = [frame EXCEPT ![t].thermal_metrics =
                 calculate_thermal_energy_capacity(systems[water_shield].thermal_manager)]
  /\ pc' = [pc EXCEPT ![t] = "power"]
  /\ UNCHANGED <<heap, last, noted>>

\* An exception of the power calculation leaves get_system_status.
PowerDone(t, power_metrics) ==
  /\ frame' = [frame EXCEPT ![t].power_metrics = power_metrics,
                            ![t].ret = IF Raised(power_metrics) THEN power_metrics ELSE None]
  /\ pc' = [pc EXCEPT ![t] = IF Raised(power_metrics) THEN "done" ELSE "absorption"]

StepPower(t) ==
  /\ pc[t] = "power"
  /\ PowerDone(t, calculate_power_output_per_orbit(systems[water_shield].power_generator))
  /\ UNCHANGED <<heap, last, noted>>

StepAbsorption(t) ==
  /\ pc[t] = "absorption"
  /\ frame' = [frame EXCEPT ![t].heat_absorption =
                 calculate_heat_absorption_rate(systems[water_shield].thermal_manager,
                                                SolarConstantDefault, AbsorptionDefault)]
  /\ pc' = [pc EXCEPT ![t] = "rejection"]
  /\ UNCHANGED <<heap, last, noted>>

StepRejection(t) ==
  /\ pc[t] = "rejection"
  /\ frame' = [frame EXCEPT ![t].heat_rejection =
                 calculate_heat_rejection_rate(systems[water_shield].thermal_manager,
                                               SpaceTempDefault, EmissivityDefault)]
  /\ pc' = [pc EXCEPT ![t] = "return"]
  /\ UNCHANGED <<heap, last, noted>>

\* The return statement builds the record from the locals and the
\* configuration objects.
StepReturn(t) ==
  /\ pc[t] = "return"
  /\ frame' = [frame EXCEPT ![t].ret =
                 StatusRecord(water_shield, frame[t].radiation_metrics,
                              frame[t].thermal_metrics, frame[t].power_metrics,
                              frame[t].heat_absorption, frame[t].heat_rejection)]
  /\ pc' = [pc EXCEPT ![t] = "done"]
  /\ UNCHANGED <<heap, last, noted>>

\* POST /api/update_config: a placeholder that answers without assigning.
UpdateConfig(t) ==
  /\ pc[t] = "idle"
  /\ frame' = [frame EXCEPT ![t].ret = [status |-> "success"]]
  /\ pc' = [pc EXCEPT ![t] = "done"]
  /\ UNCHANGED <<heap, last, noted>>

\* jsonify(status): the response leaves, the thread takes the next request.
Respond(t) ==
  /\ pc[t] = "done"
  /\ frame' = [frame EXCEPT ![t] = NoFrame]
  /\ pc' = [pc EXCEPT ![t] = "idle"]
  /\ UNCHANGED <<heap, last, noted>>

InitThreads ==
  /\ wcfg = <<WaterShieldConfigDefault>>
  /\ oprm = <<OrbitalParametersDefault>>
  /\ shields = <<[config |-> 1]>>
  /\ managers = <<[config |-> 1, orbital_params |-> 1]>>
  /\ generators = <<[thermal_manager |-> 1, efficiency |-> EfficiencyDefault]>>
  /\ systems = <<[water_config |-> 1, orbital_params |-> 1, radiation_shield |-> 1,
                  thermal_manager |-> 1, power_generator |-> 1]>>
  /\ last = Op("__init__", water_shield, None, None)
  /\ noted = None
  /\ pc = [t \in Threads |-> "idle"]
  /\ frame = [t \in Threads |-> NoFrame]

NextThreads ==
  \/ \E t \in Threads, d \in ExposureDays : Request(t, d)
  \/ \E t \in Threads : StepRadiation(t)
  \/ \E t \in Threads : StepThermal(t)
  \/ \E t \in Threads : StepPower(t)
  \/ \E t \in Threads : StepAbsorption(t)
  \/ \E t \in Threads : StepRejection(t)
  \/ \E t \in Threads : StepReturn(t)
  \/ \E t \in Threads : UpdateConfig(t)
  \/ \E t \in Threads : Respond(t)

SpecThreads == InitThreads /\ [][NextThreads]_vars

(***************************************************************************)
(* C4.  Concurrent use needs no locking: whenever a thread's               *)
(* get_system_status call on the shared instance has returned, whatever    *)
(* the other threads did between its statements, its result is the result  *)
(* of get_system_status run in one piece with the same exposure_days.      *)
(***************************************************************************)
C4_ConcurrentCallsAgree ==
  \A t \in Threads :
    (pc[t] = "done" /\ frame[t].exposure_days # None)
    => frame[t].ret = get_system_status(water_shield, frame[t].exposure_days)

\* One thread's call has returned while another thread, with a different
\* exposure_days, stands between two calculator calls.
C4_Witness ==
  \E t, u \in Threads :
    /\ pc[t] = "done"
    /\ frame[t].exposure_days # None
    /\ ~Raised(frame[t].ret)
    /\ pc[u] \in {"thermal", "power", "absorption", "rejection", "return"}
    /\ frame[u].exposure_days # frame[t].exposure_days

(***************************************************************************)
(* The calculators called directly, as test_water_shield.py and example.py *)
(* do: two RadiationShields on two configurations (a thin and a thick      *)
(* shield), a ThermalCycleManager, two PowerGenerators on that manager (a  *)
(* low and a high efficiency), and a SatelliteWaterShield on the first     *)
(* configuration.  The configurations come from slices of the input space  *)
(* around the defaults.                                                    *)
(***************************************************************************)
\* shield_thickness_cm: none, 2^-10 cm, the values of the tests and
\* examples, and shields thick enough that the factor leaves the range of
\* the format.
Thicknesses ==
  {Zero, FromRat(1, 1024, 0), FromInt(5), FromInt(10), FromInt(15), FromInt(50),
   FromInt(100), FromInt(250)}

WithThickness(shield_thickness_cm) ==
  WaterShieldConfig(FromInt(1000), shield_thickness_cm, FromInt(20), FromInt(50), FromInt(-20))

\* water_mass_kg, hot_temp_celsius, cold_temp_celsius: the defaults, the
\* examples, the temperatures reversed and equal, no water.
ThermalConfigs ==
  {WaterShieldConfigDefault,
   WaterShieldConfig(FromInt(2000), FromInt(15), FromInt(30), FromInt(60), FromInt(-30)),
   WaterShieldConfig(FromInt(1500), FromInt(12), FromInt(25), FromInt(50), FromInt(-20)),
   WaterShieldConfig(FromInt(100), FromInt(5), FromInt(2), FromInt(40), FromInt(-10)),
   WaterShieldConfig(FromInt(1000), FromInt(10), FromInt(20), FromInt(-20), FromInt(50)),
   WaterShieldConfig(FromInt(1500), FromInt(10), FromInt(20), FromInt(-20), FromInt(50)),
   WaterShieldConfig(FromInt(1000), FromInt(10), FromInt(20), FromInt(20), FromInt(20)),
   WaterShieldConfig(Zero, FromInt(10), FromInt(20), FromInt(50), FromInt(-20))}

\* orbital_period_min and eclipse_fraction: the defaults, the tests and
\* examples, the ends of [0, 1], and the invalid period 0.
Orbits ==
  {OrbitalParametersDefault,
   OrbitalParameters(FromInt(400), FromInt(90), FromRat(4, 10, 0)),
   OrbitalParameters(FromInt(20000), FromInt(718), FromRat(2, 10, 0)),
   OrbitalParameters(FromInt(400), FromInt(92), FromRat(15, 100, 0)),
   OrbitalParameters(FromInt(400), FromInt(92), FromRat(3, 10, 0)),
   OrbitalParameters(FromInt(400), FromInt(96), FromRat(1, 10, 0)),
   OrbitalParameters(FromInt(400), FromInt(90), Zero),
   OrbitalParameters(FromInt(400), FromInt(90), FOne),
   OrbitalParameters(FromInt(400), Zero, FromRat(35, 100, 0))}

\* The float next above the positive float x (math.nextafter(x, math.inf)).
Following(x) ==
  IF x.m + 1 = 2^Precision THEN [x EXCEPT !.m = 2^(Precision - 1), !.e = @ + 1]
  ELSE [x EXCEPT !.m = @ + 1]

\* The efficiencies of the low and the high generator: equal, those of the
\* tests and examples, and efficiencies that are neighbours in the format.
EfficiencyPairs ==
  {<<EfficiencyDefault, EfficiencyDefault>>,
   <<FromRat(10, 100, 0), FromRat(20, 100, 0)>>,
   <<FromRat(12, 100, 0), FromRat(18, 100, 0)>>,
   <<FromRat(10, 100, 0), Following(FromRat(10, 100, 0))>>,
   <<FromRat(20, 100, 0), Following(FromRat(20, 100, 0))>>,
   <<FromRat(47, 100, 0), Following(FromRat(47, 100, 0))>>,
   <<FromRat(87, 100, 0), Following(FromRat(87, 100, 0))>>}

Harness ==
  {<<WithThickness(t1), WithThickness(t2), OrbitalParametersDefault,
     EfficiencyDefault, EfficiencyDefault>> :
       <<t1, t2>> \in {p \in Thicknesses \X Thicknesses : FLe(p[1], p[2])}}
  \cup {<<c, c, OrbitalParametersDefault, EfficiencyDefault, EfficiencyDefault>> :
          c \in ThermalConfigs}
  \cup {<<WaterShieldConfigDefault, WaterShieldConfigDefault, o,
          EfficiencyDefault, EfficiencyDefault>> : o \in Orbits}
  \cup {<<WaterShieldConfigDefault, WaterShieldConfigDefault, OrbitalParametersDefault,
          e[1], e[2]>> : e \in EfficiencyPairs}

InitCalc ==
  \E h \in Harness :
    /\ wcfg = <<h[1], h[2]>>
    /\ oprm = <<h[3]>>
    /\ shields = <<[config |-> 1], [config |-> 2], [config |-> 1]>>
    /\ managers = <<[config |-> 1, orbital_params |-> 1],
                    [config |-> 1, orbital_params |-> 1]>>
    /\ generators = <<[thermal_manager |-> 1, efficiency |-> h[4]],
                      [thermal_manager |-> 1, efficiency |-> h[5]],
                      [thermal_manager |-> 2, efficiency |-> h[4]]>>
    /\ systems = <<[water_config |-> 1, orbital_params |-> 1, radiation_shield |-> 3,
                    thermal_manager |-> 2, power_generator |-> 3]>>
    /\ last = Op("__init__", 1, None, None)
    /\ noted = None
    /\ pc = [t \in Threads |-> "idle"]
    /\ frame = [t \in Threads |-> NoFrame]

NextCalc ==
  \/ \E r \in 1 .. Len(shields) : CalcShieldingFactor(r)
  \/ \E r \in 1 .. Len(shields), d \in DoseDays : CalcDoseReduction(r, d)
  \/ \E t \in 1 .. Len(managers) : CalcThermalCapacity(t)
  \/ \E t \in 1 .. Len(managers) : CalcHeatAbsorption(t)
  \/ \E t \in 1 .. Len(managers) : CalcHeatRejection(t)
  \/ \E g \in 1 .. Len(generators) : CalcPowerOutput(g)
  \/ \E o \in 1 .. Len(oprm) : ReadSunlightDuration(o)
  \/ \E o \in 1 .. Len(oprm) : ReadEclipseDuration(o)
  \/ \E s \in 1 .. Len(systems), d \in ExposureDays : GetSystemStatus(s, d)
  \/ \E s \in 1 .. Len(systems), d \in ExposureDays : PrintSystemReport(s, d)

SpecCalc == InitCalc /\ [][NextCalc]_vars

(***************************************************************************)
(* C3.  The queries are read-only: a step that is a get_system_status, a   *)
(* print_system_report, a calculator method or a property read leaves      *)
(* every field of every WaterShieldConfig and OrbitalParameters, every     *)
(* PowerGenerator's efficiency, and every reference that an aggregator or  *)
(* a calculator holds, unchanged.                                          *)
(***************************************************************************)
C3_ReadOnly ==
  [][last'.op \in QueryOps =>
       /\ wcfg' = wcfg
       /\ oprm' = oprm
       /\ generators' = generators
       /\ systems' = systems
       /\ shields' = shields
       /\ managers' = managers]_vars

\* A rejection rate was computed after a get_system_status had returned a
\* record, on a configuration that is not the default one.
C3_Witness ==
  /\ last.op = "calculate_heat_rejection_rate"
  /\ noted # None
  /\ ~Raised(noted.ret)
  /\ wcfg[managers[last.self].config] # WaterShieldConfigDefault

(***************************************************************************)
(* C6.  An invalid configuration is surfaced: with orbital_period_min = 0, *)
(* calculate_power_output_per_orbit and get_system_status raise            *)
(* ZeroDivisionError and return no record, in every state (so a later call *)
(* fails the same way), and the failed call leaves the configuration       *)
(* objects as they were.                                                   *)
(***************************************************************************)
PeriodIsZero(op, self) ==
  IF op = "get_system_status"
  THEN oprm[systems[self].orbital_params].orbital_period_min = Zero
  ELSE orbital_period_of(self) = Zero

C6_Fails ==
  /\ \A g \in 1 .. Len(generators) :
       orbital_period_of(g) = Zero
       => calculate_power_output_per_orbit(g) = ZeroDivisionError
  /\ \A s \in 1 .. Len(systems), d \in ExposureDays :
       PeriodIsZero("get_system_status", s)
       => get_system_status(s, d) = ZeroDivisionError
  /\ (/\ last.op \in {"calculate_power_output_per_orbit", "get_system_status"}
      /\ PeriodIsZero(last.op, last.self))
     => last.ret = ZeroDivisionError

C6_FailedCallKeepsConfig ==
  (/\ last'.op \in {"calculate_power_output_per_orbit", "get_system_status"}
   /\ PeriodIsZero(last'.op, last'.self))
  => (wcfg' = wcfg /\ oprm' = oprm)

C6_InvalidSurfaced == [](C6_Fails) /\ [][C6_FailedCallKeepsConfig]_vars

\* get_system_status raised on an instance whose period is 0, after an
\* earlier call with the same arguments had raised.
C6_Witness ==
  /\ last.op = "get_system_status"
  /\ PeriodIsZero(last.op, last.self)
  /\ last.ret = ZeroDivisionError
  /\ noted # None
  /\ noted.arg = last.arg
  /\ noted.ret = ZeroDivisionError

(***************************************************************************)
(* C7.  Dose invariant, as the floats keep it: for every                   *)
(* shield_thickness_cm >= 0 and exposure_days >= 0, the record of          *)
(* calculate_effective_dose_reduction has shielded_dose_msv <=             *)
(* unshielded_dose_msv and 0 <= reduction_percent <= 100.  The value 100   *)
(* is reached: for a thick shield 1 - shielding_factor rounds to 1.        *)
(***************************************************************************)
C7_DoseBounds ==
  last.op = "calculate_effective_dose_reduction"
  => /\ FLe(last.ret.shielded_dose_msv, last.ret.unshielded_dose_msv)
     /\ FLe(Zero, last.ret.reduction_percent)
     /\ FLe(last.ret.reduction_percent, F100)

\* The claim as stated: reduction_percent stays below 100.
C7_BelowHundred ==
  last.op = "calculate_effective_dose_reduction"
  => /\ FLe(last.ret.shielded_dose_msv, last.ret.unshielded_dose_msv)
     /\ FLe(Zero, last.ret.reduction_percent)
     /\ FLt(last.ret.reduction_percent, F100)

\* A 50 cm shield over 30 days: a positive shielded dose below the
\* unshielded one, and a reduction of 100 percent.
C7_Witness ==
  /\ last.op = "calculate_effective_dose_reduction"
  /\ wcfg[shields[last.self].config].shield_thickness_cm = FromInt(50)
  /\ last.arg = FromInt(30)
  /\ FLt(Zero, last.ret.shielded_dose_msv)
  /\ FLt(last.ret.shielded_dose_msv, last.ret.unshielded_dose_msv)
  /\ last.ret.reduction_percent = F100

(***************************************************************************)
(* C8.  Shielding factor, as the floats keep it: for every                 *)
(* shield_thickness_cm >= 0 the factor f has 0 <= f <= 1, f = 1 at         *)
(* thickness 0, and of two shields the thicker one never has the larger    *)
(* factor.  Both ends are reached away from thickness 0 and infinity, and  *)
(* different thicknesses can have equal factors.                           *)
(***************************************************************************)
thickness_of(r) == wcfg[shields[r].config].shield_thickness_cm

C8_FactorRange ==
  last.op = "calculate_shielding_factor"
  => /\ FLe(Zero, last.ret)
     /\ FLe(last.ret, FOne)
     /\ thickness_of(last.self) = Zero => last.ret = FOne
     /\ \A r \in 1 .. Len(shields) :
          FLt(thickness_of(last.self), thickness_of(r))
          => FLe(calculate_shielding_factor(r), last.ret)

\* The claim as stated: 0 < f, and strictly decreasing.
C8_StrictlyDecreasing ==
  last.op = "calculate_shielding_factor"
  => /\ FLt(Zero, last.ret)
     /\ FLe(last.ret, FOne)
     /\ thickness_of(last.self) = Zero => last.ret = FOne
     /\ \A r \in 1 .. Len(shields) :
          FLt(thickness_of(last.self), thickness_of(r))
          => FLt(calculate_shielding_factor(r), last.ret)

\* The test's thin and thick shield, 5 cm and 15 cm: the thick one has the
\* strictly smaller factor, both inside (0, 1).
C8_Witness ==
  /\ last.op = "calculate_shielding_factor"
  /\ thickness_of(last.self) = FromInt(5)
  /\ FLt(last.ret, FOne)
  /\ \E r \in 1 .. Len(shields) :
       /\ thickness_of(r) = FromInt(15)
       /\ FLt(Zero, calculate_shielding_factor(r))
       /\ FLt(calculate_shielding_factor(r), last.ret)

(***************************************************************************)
(* C9.  Orbit split, as the floats keep it: for orbital_period_min > 0 and *)
(* eclipse_fraction in [0, 1], sunlight_duration_min +                     *)
(* eclipse_duration_min is within 4 units of roundoff of                   *)
(* orbital_period_min (a relative 2^(2 - Precision)), and both durations   *)
(* lie in [0, orbital_period_min].                                         *)
(***************************************************************************)
\* |a - b| <= |b| * 2^(k - Precision)
WithinRoundoff(a, b, k) ==
  FLe(FAbs(FSub(a, b)), FMul(FAbs(b), FromRat(1, 1, k - Precision)))

ValidOrbit(o) ==
  /\ FLt(Zero, oprm[o].orbital_period_min)
  /\ FLe(Zero, oprm[o].eclipse_fraction)
  /\ FLe(oprm[o].eclipse_fraction, FOne)

C9_OrbitSplit ==
  (last.op \in {"sunlight_duration_min", "eclipse_duration_min"} /\ ValidOrbit(last.self))
  => /\ FLe(Zero, last.ret)
     /\ FLe(last.ret, oprm[last.self].orbital_period_min)
     /\ WithinRoundoff(FAdd(sunlight_duration_min(last.self),
                            eclipse_duration_min(last.self)),
                       oprm[last.self].orbital_period_min, 2)

\* The claim as stated: the sum equals the period.
C9_ExactSplit ==
  (last.op \in {"sunlight_duration_min", "eclipse_duration_min"} /\ ValidOrbit(last.self))
  => /\ FLe(Zero, last.ret)
     /\ FLe(last.ret, oprm[last.self].orbital_period_min)
     /\ FAdd(sunlight_duration_min(last.self), eclipse_duration_min(last.self))
          = oprm[last.self].orbital_period_min

\* An eclipse duration strictly inside (0, period) whose sum with the
\* sunlight duration is not the period.
C9_Witness ==
  /\ last.op = "eclipse_duration_min"
  /\ ValidOrbit(last.self)
  /\ FLt(Zero, last.ret)
  /\ FLt(last.ret, oprm[last.self].orbital_period_min)
  /\ FAdd(sunlight_duration_min(last.self), eclipse_duration_min(last.self))
       # oprm[last.self].orbital_period_min

(***************************************************************************)
(* C10.  Thermal capacity decomposition, as the floats keep it: the record *)
(* of calculate_thermal_energy_capacity has sensible_heat_mj =             *)
(* mass * specific_heat_capacity * |hot - cold| / 1e6, latent_heat_mj =    *)
(* mass * latent_heat_fusion / 1e6, with the temperatures in either order, *)
(* and total_capacity_mj within 8 units of roundoff of sensible_heat_mj +  *)
(* latent_heat_mj (a relative 2^(3 - Precision)).                          *)
(***************************************************************************)
config_of(t) == wcfg[managers[t].config]

C10_Decomposition ==
  last.op = "calculate_thermal_energy_capacity"
  => /\ last.ret.sensible_heat_mj =
          FDiv(FMul(FMul(config_of(last.self).water_mass_kg,
                         config_of(last.self).specific_heat_capacity),
                    FAbs(FSub(config_of(last.self).hot_temp_celsius,
                              config_of(last.self).cold_temp_celsius))),
               F1e6)
     /\ last.ret.latent_heat_mj =
          FDiv(FMul(config_of(last.self).water_mass_kg,
                    config_of(last.self).latent_heat_fusion), F1e6)
     /\ WithinRoundoff(FAdd(last.ret.sensible_heat_mj, last.ret.latent_heat_mj),
                       last.ret.total_capacity_mj, 3)

\* The claim as stated: the total equals the sum of the two fields.
C10_ExactSum ==
  last.op = "calculate_thermal_energy_capacity"
  => last.ret.total_capacity_mj =
       FAdd(last.ret.sensible_heat_mj, last.ret.latent_heat_mj)

\* Temperatures in reverse order, and a total that is not the sum of the
\* two fields.
C10_Witness ==
  /\ last.op = "calculate_thermal_energy_capacity"
  /\ FLt(config_of(last.self).hot_temp_celsius, config_of(last.self).cold_temp_celsius)
  /\ FLt(Zero, last.ret.sensible_heat_mj)
  /\ last.ret.total_capacity_mj # FAdd(last.ret.sensible_heat_mj, last.ret.latent_heat_mj)

(***************************************************************************)
(* C11.  Peak power relation: with orbital_period_min > 0, the record of   *)
(* calculate_power_output_per_orbit, and the power_generation section of   *)
(* the record of get_system_status, has peak_power_w = 2 * avg_power_w     *)
(* exactly: the product is the float 2 * avg_power_w, and no rounding has  *)
(* taken place in it (peak_power_w - avg_power_w is avg_power_w again).    *)
(***************************************************************************)
PeakIsTwice(power_metrics) ==
  /\ power_metrics.peak_power_w = FMul(F2, power_metrics.avg_power_w)
  /\ FSub(power_metrics.peak_power_w, power_metrics.avg_power_w) = power_metrics.avg_power_w

C11_PeakPower ==
  /\ (last.op = "calculate_power_output_per_orbit" /\ ~PeriodIsZero(last.op, last.self))
     => PeakIsTwice(last.ret)
  /\ (last.op = "get_system_status" /\ ~PeriodIsZero(last.op, last.self))
     => PeakIsTwice(last.ret.power_generation)

\* A power record, not of the default configuration, with a positive
\* average power, after a get_system_status had returned its record.
C11_Witness ==
  /\ last.op = "calculate_power_output_per_orbit"
  /\ ~PeriodIsZero(last.op, last.self)
  /\ FLt(Zero, last.ret.avg_power_w)
  /\ wcfg[managers[generators[last.self].thermal_manager].config] # WaterShieldConfigDefault
  /\ noted # None
  /\ ~Raised(noted.ret)
  /\ FLt(Zero, noted.ret.power_generation.peak_power_w)

(***************************************************************************)
(* C12.  Efficiency monotonicity, as the floats keep it: of two            *)
(* PowerGenerators on one ThermalCycleManager (water_mass_kg > 0,          *)
(* orbital_period_min > 0) with efficiencies e1 < e2, the one with e2      *)
(* never has the smaller avg_power_w or daily_energy_kwh, and has the      *)
(* strictly larger ones when e2 is more than 8 units of roundoff above e1  *)
(* (a relative 2^(3 - Precision)).  Efficiencies closer than that can have *)
(* equal outputs.                                                          *)
(***************************************************************************)
efficiency_of(g) == generators[g].efficiency

\* g2 is a generator on the manager of g, which has water and a positive
\* period, with a higher efficiency than g.
MoreEfficient(g, g2) ==
  /\ generators[g2].thermal_manager = generators[g].thermal_manager
  /\ FLt(Zero, wcfg[managers[generators[g].thermal_manager].config].water_mass_kg)
  /\ FLt(Zero, orbital_period_of(g))
  /\ FLt(efficiency_of(g), efficiency_of(g2))

C12_EfficiencyMonotone ==
  last.op = "calculate_power_output_per_orbit"
  => \A g2 \in 1 .. Len(generators) :
       MoreEfficient(last.self, g2)
       => /\ FLe(last.ret.avg_power_w, calculate_power_output_per_orbit(g2).avg_power_w)
          /\ FLe(last.ret.daily_energy_kwh,
                 calculate_power_output_per_orbit(g2).daily_energy_kwh)
          /\ ~WithinRoundoff(efficiency_of(g2), efficiency_of(last.self), 3)
             => /\ FLt(last.ret.avg_power_w,
                       calculate_power_output_per_orbit(g2).avg_power_w)
                /\ FLt(last.ret.daily_energy_kwh,
                       calculate_power_output_per_orbit(g2).daily_energy_kwh)

\* The claim as stated: strictly larger for every e1 < e2.
C12_StrictlyMore ==
  last.op = "calculate_power_output_per_orbit"
  => \A g2 \in 1 .. Len(generators) :
       MoreEfficient(last.self, g2)
       => /\ FLt(last.ret.avg_power_w, calculate_power_output_per_orbit(g2).avg_power_w)
          /\ FLt(last.ret.daily_energy_kwh,
                 calculate_power_output_per_orbit(g2).daily_energy_kwh)

\* The test's two generators, efficiencies 0.10 and 0.20: the second has
\* the strictly larger outputs.
C12_Witness ==
  /\ last.op = "calculate_power_output_per_orbit"
  /\ efficiency_of(last.self) = FromRat(10, 100, 0)
  /\ \E g2 \in 1 .. Len(generators) :
       /\ MoreEfficient(last.self, g2)
       /\ efficiency_of(g2) = FromRat(20, 100, 0)
       /\ FLt(Zero, last.ret.avg_power_w)
       /\ FLt(last.ret.avg_power_w, calculate_power_output_per_orbit(g2).avg_power_w)
       /\ FLt(last.ret.daily_energy_kwh,
              calculate_power_output_per_orbit(g2).daily_energy_kwh)

(***************************************************************************)
(* C13.  Result shape: every record that get_system_status returns has     *)
(* exactly the six sections orbital_parameters, water_shield,              *)
(* radiation_protection, thermal_capacity, thermal_rates and               *)
(* power_generation, and each section has exactly its fields (4, 3, 4, 4,  *)
(* 2 and 5 of them), for every configuration and exposure_days for which   *)
(* the call returns.                                                       *)
(***************************************************************************)
C13_ResultShape ==
  (last.op = "get_system_status" /\ ~Raised(last.ret))
  => /\ DOMAIN last.ret =
          {"orbital_parameters", "water_shield", "radiation_protection",
           "thermal_capacity", "thermal_rates", "power_generation"}
     /\ DOMAIN last.ret.orbital_parameters =
          {"altitude_km", "orbital_period_min", "sunlight_duration_min",
           "eclipse_duration_min"}
     /\ DOMAIN last.ret.water_shield =
          {"water_mass_kg", "shield_thickness_cm", "surface_area_m2"}
     /\ DOMAIN last.ret.radiation_protection =
          {"unshielded_dose_msv", "shielded_dose_msv", "reduction_percent",
           "shielding_factor"}
     /\ DOMAIN last.ret.thermal_capacity =
          {"sensible_heat_mj", "latent_heat_mj", "total_capacity_mj",
           "total_capacity_kwh"}
     /\ DOMAIN last.ret.thermal_rates = {"heat_absorption_kw", "heat_rejection_kw"}
     /\ DOMAIN last.ret.power_generation =
          {"energy_per_orbit_kwh", "avg_power_w", "peak_power_w", "daily_energy_kwh",
           "conversion_efficiency"}

\* A record returned for 7 days of exposure by an instance whose
\* configuration is not the default one.
C13_Witness ==
  /\ last.op = "get_system_status"
  /\ ~Raised(last.ret)
  /\ last.arg = FromInt(7)
  /\ wcfg[systems[last.self].water_config] # WaterShieldConfigDefault
  /\ Cardinality(DOMAIN last.ret) = 6

(***************************************************************************)
(* C14.  Single shared configuration: in every state, of every             *)
(* SatelliteWaterShield, radiation_shield.config and                       *)
(* thermal_manager.config are its water_config,                            *)
(* thermal_manager.orbital_params is its orbital_params and                *)
(* power_generator.thermal_manager is its thermal_manager; and in every    *)
(* record of get_system_status the values of the water_shield and          *)
(* orbital_parameters sections are the values from which the other         *)
(* sections were computed, also after the caller has assigned to them.     *)
(***************************************************************************)
OwnedOnce(s) ==
  /\ shields[systems[s].radiation_shield].config = systems[s].water_config
  /\ managers[systems[s].thermal_manager].config = systems[s].water_config
  /\ managers[systems[s].thermal_manager].orbital_params = systems[s].orbital_params
  /\ generators[systems[s].power_generator].thermal_manager = systems[s].thermal_manager

ComputedFromSections(s, exposure_days, status) ==
  /\ status.radiation_protection =
       DoseRecord(FExp(FMul(FNeg(WATER_ATTENUATION_RATE),
                            status.water_shield.shield_thickness_cm)),
                  FMul(GCR_FLUX_MSV_DAY, exposure_days))
  /\ status.thermal_capacity.latent_heat_mj =
       FDiv(FMul(status.water_shield.water_mass_kg,
                 wcfg[systems[s].water_config].latent_heat_fusion), F1e6)
  /\ status.thermal_rates.heat_absorption_kw =
       FDiv(FMul(FMul(SolarConstantDefault, status.water_shield.surface_area_m2),
                 AbsorptionDefault), F1000)
  /\ status.power_generation.avg_power_w =
       FDiv(FMul(FMul(status.thermal_capacity.total_capacity_mj, F1e6),
                 status.power_generation.conversion_efficiency),
            FMul(status.orbital_parameters.orbital_period_min, F60))

C14_SharedConfiguration ==
  /\ \A s \in 1 .. Len(systems) : OwnedOnce(s)
  /\ (last.op = "get_system_status" /\ ~Raised(last.ret))
     => ComputedFromSections(last.self, last.arg, last.ret)

\* The second of two instances returned a record after the caller had
\* assigned a water mass of 2000 kg to its configuration.
C14_Witness ==
  /\ Len(systems) = 2
  /\ last.op = "get_system_status"
  /\ last.self = 2
  /\ ~Raised(last.ret)
  /\ last.ret.water_shield.water_mass_kg = FromInt(2000)
  /\ wcfg[shields[systems[2].radiation_shield].config].water_mass_kg = FromInt(2000)

(***************************************************************************)
(* Engines on orbits the caller constructs, as example.py and              *)
(* TestSatelliteWaterShield do: OrbitalParameters objects that differ in   *)
(* the altitude only, and ones that differ in the period and the eclipse   *)
(* fraction, each passed to the constructor with one of two efficiencies.  *)
(***************************************************************************)
CallerOrbits ==
  {OrbitalParameters(FromInt(500), FromInt(92), FromRat(35, 100, 0)),
   OrbitalParameters(FromInt(20000), FromInt(92), FromRat(35, 100, 0)),
   OrbitalParameters(FromInt(20000), FromInt(718), FromRat(20, 100, 0)),
   OrbitalParameters(FromInt(400), FromInt(718), FromRat(20, 100, 0))}

CallerEfficiencies == {EfficiencyDefault, FromRat(20, 100, 0)}

NewOrbitalParameters(v) ==
  /\ Len(oprm) < MaxObjects
  /\ oprm' = Append(oprm, v)
  /\ last' = Op("OrbitalParameters", Len(oprm) + 1, None, None)
  /\ Note
  /\ UNCHANGED <<wcfg, shields, managers, generators, systems, pc, frame>>

NextOrbits ==
  \/ \E v \in CallerOrbits : NewOrbitalParameters(v)
  \/ \E o \in 0 .. Len(oprm), e \in CallerEfficiencies : Construct(0, o, e)
  \/ \E s \in 1 .. Len(systems), d \in ExposureDays : GetSystemStatus(s, d)

SpecOrbits == Init /\ [][NextOrbits]_vars

(***************************************************************************)
(* C15.  altitude_km is informational only: the record of                  *)
(* get_system_status echoes the configured altitude_km, and of two engines *)
(* whose configurations differ in altitude_km only, get_system_status with *)
(* the same exposure_days returns records that are equal in every field    *)
(* but orbital_parameters.altitude_km.                                     *)
(***************************************************************************)
orbit_of(s) == oprm[systems[s].orbital_params]

DifferInAltitudeOnly(s1, s2) ==
  /\ wcfg[systems[s1].water_config] = wcfg[systems[s2].water_config]
  /\ generators[systems[s1].power_generator].efficiency
       = generators[systems[s2].power_generator].efficiency
  /\ orbit_of(s1).altitude_km # orbit_of(s2).altitude_km
  /\ orbit_of(s1).orbital_period_min = orbit_of(s2).orbital_period_min
  /\ orbit_of(s1).eclipse_fraction = orbit_of(s2).eclipse_fraction

C15_AltitudeInformational ==
  (last.op = "get_system_status" /\ ~Raised(last.ret))
  => /\ last.ret.orbital_parameters.altitude_km = orbit_of(last.self).altitude_km
     /\ \A s2 \in 1 .. Len(systems) :
          DifferInAltitudeOnly(last.self, s2)
          => get_system_status(s2, last.arg)
               = [last.ret EXCEPT !.orbital_parameters.altitude_km =
                                     orbit_of(s2).altitude_km]

\* Two engines at 500 km and 20000 km, alike in everything else; the second
\* returned a record, with its own altitude in it.
C15_Witness ==
  /\ Len(systems) = 2
  /\ DifferInAltitudeOnly(1, 2)
  /\ orbit_of(1).altitude_km = FromInt(500)
  /\ last.op = "get_system_status"
  /\ last.self = 2
  /\ ~Raised(last.ret)
  /\ last.ret.orbital_parameters.altitude_km = FromInt(20000)
  /\ get_system_status(1, last.arg) # last.ret

(***************************************************************************)
(* C16.  Power formulas: with orbital_period_min > 0 the record of         *)
(* calculate_power_output_per_orbit has avg_power_w = E /                  *)
(* (orbital_period_min * 60), daily_energy_kwh = (E / 3.6e6) * (1440 /     *)
(* orbital_period_min) and energy_per_orbit_kwh = E / 3.6e6, where E =     *)
(* total_capacity_mj * 1e6 * efficiency and total_capacity_mj is what      *)
(* calculate_thermal_energy_capacity returns for the same configuration:   *)
(* for the defaults 627.02, to the roundoff of the narrowed literals.      *)
(***************************************************************************)
manager_of(g) == generators[g].thermal_manager

electrical_energy_j(g) ==
  FMul(FMul(calculate_thermal_energy_capacity(manager_of(g)).total_capacity_mj, F1e6),
       efficiency_of(g))

C16_PowerFormulas ==
  (last.op = "calculate_power_output_per_orbit" /\ FLt(Zero, orbital_period_of(last.self)))
  => /\ last.ret.avg_power_w =
          FDiv(electrical_energy_j(last.self), FMul(orbital_period_of(last.self), F60))
     /\ last.ret.daily_energy_kwh =
          FMul(FDiv(electrical_energy_j(last.self), F3_6e6),
               FDiv(F1440, orbital_period_of(last.self)))
     /\ last.ret.energy_per_orbit_kwh = FDiv(electrical_energy_j(last.self), F3_6e6)
     /\ config_of(manager_of(last.self)) = WaterShieldConfigDefault
        => WithinRoundoff(calculate_thermal_energy_capacity(manager_of(last.self)).total_capacity_mj,
                          FromRat(62702, 100, 0), 3)

\* The power record of the defaults (period 92, efficiency 0.15), all three
\* outputs positive.
C16_Witness ==
  /\ last.op = "calculate_power_output_per_orbit"
  /\ config_of(manager_of(last.self)) = WaterShieldConfigDefault
  /\ orbital_period_of(last.self) = FromInt(92)
  /\ efficiency_of(last.self) = EfficiencyDefault
  /\ FLt(Zero, last.ret.avg_power_w)
  /\ FLt(Zero, last.ret.daily_energy_kwh)
  /\ FLt(Zero, last.ret.energy_per_orbit_kwh)
  /\ FLt(last.ret.energy_per_orbit_kwh, last.ret.daily_energy_kwh)

(***************************************************************************)
(* C17.  Cross-section consistency of one status record, as the floats     *)
(* keep it: power_generation.energy_per_orbit_kwh is within 8 units of     *)
(* roundoff of thermal_capacity.total_capacity_kwh *                       *)
(* power_generation.conversion_efficiency (a relative 2^(3 - Precision):   *)
(* the two are computed along different paths from total_capacity_j),      *)
(* conversion_efficiency is the efficiency given at construction, and      *)
(* shielded_dose_msv is unshielded_dose_msv * shielding_factor.            *)
(***************************************************************************)
EfficiencyAndDoseAgree(s, status) ==
  /\ status.power_generation.conversion_efficiency
       = efficiency_of(systems[s].power_generator)
  /\ status.radiation_protection.shielded_dose_msv
       = FMul(status.radiation_protection.unshielded_dose_msv,
              status.radiation_protection.shielding_factor)

C17_CrossSection ==
  (last.op = "get_system_status" /\ ~Raised(last.ret))
  => /\ WithinRoundoff(last.ret.power_generation.energy_per_orbit_kwh,
                       FMul(last.ret.thermal_capacity.total_capacity_kwh,
                            last.ret.power_generation.conversion_efficiency), 3)
     /\ EfficiencyAndDoseAgree(last.self, last.ret)

\* The claim as stated: energy_per_orbit_kwh equals the product.
C17_ExactProduct ==
  (last.op = "get_system_status" /\ ~Raised(last.ret))
  => /\ last.ret.power_generation.energy_per_orbit_kwh
          = FMul(last.ret.thermal_capacity.total_capacity_kwh,
                 last.ret.power_generation.conversion_efficiency)
     /\ EfficiencyAndDoseAgree(last.self, last.ret)

\* A record with a positive shielded dose whose energy per orbit is not
\* the product of the capacity in kWh and the efficiency.
C17_Witness ==
  /\ last.op = "get_system_status"
  /\ ~Raised(last.ret)
  /\ FLt(Zero, last.ret.radiation_protection.shielded_dose_msv)
  /\ FLt(Zero, last.ret.power_generation.energy_per_orbit_kwh)
  /\ last.ret.power_generation.energy_per_orbit_kwh
       # FMul(last.ret.thermal_capacity.total_capacity_kwh,
              last.ret.power_generation.conversion_efficiency)

====
